---- MODULE Spec2Model ----
(***************************************************************************)
(* Model of the word-list functions of 05_Word_Lists.ipynb:                *)
(*   word_count, text_to_words and count_occurences (Spec), their calls    *)
(*   interleaved over workers (SpecWorkers), and the dataframe cells:      *)
(*   Series.apply over the text column and vaderize (SpecBatch).           *)
(* A Python str is a record [type |-> "str", chars |-> sequence of          *)
(* one-character strings]; None is [type |-> "NoneType", chars |-> <<>>].  *)
(* A call ends in Return(v) or in Raise(exception name).                   *)
(***************************************************************************)
EXTENDS Integers, Sequences, FiniteSets, TLC

VARIABLES text, word_list, op, ret

\* df: the dataframe, a sequence of rows [label, commentBody];
\* out: what a batch run has produced; wk: each worker's position;
\* frames: the local variables of the calls in progress
VARIABLES df, out, wk, frames

vars == <<text, word_list, op, ret, df, out, wk, frames>>

\* Longest generated input text, in characters.
MaxLen == 4

\* Most rows of a generated dataframe.
MaxRows == 3

\* Number of workers that score the rows of a dataframe.
NumWorkers == 2

----------------------------------------------------------------------------
\* Python values and call outcomes

Str(cs) == [type |-> "str", chars |-> cs]

None == [type |-> "NoneType", chars |-> <<>>]

Return(v) == [kind |-> "return", value |-> v]

Raise(e) == [kind |-> "raise", value |-> e]

----------------------------------------------------------------------------
\* str.lower, restricted to ASCII letters (every other character of the
\* modelled alphabet is caseless and maps to itself)

ascii_uppercase ==
  <<"A", "B", "C", "D", "E", "F", "G", "H", "I", "J", "K", "L", "M",
    "N", "O", "P", "Q", "R", "S", "T", "U", "V", "W", "X", "Y", "Z">>

ascii_lowercase ==
  <<"a", "b", "c", "d", "e", "f", "g", "h", "i", "j", "k", "l", "m",
    "n", "o", "p", "q", "r", "s", "t", "u", "v", "w", "x", "y", "z">>

lower_ch(ch) ==
  IF \E i \in DOMAIN ascii_uppercase : ascii_uppercase[i] = ch
  THEN ascii_lowercase[CHOOSE i \in DOMAIN ascii_uppercase :
                                  ascii_uppercase[i] = ch]
  ELSE ch

lower(cs) == [i \in DOMAIN cs |-> lower_ch(cs[i])]

\* the characters str.split() treats as separators
whitespace == {" ", "\t", "\n", "\r", "\f"}

isspace(ch) == ch \in whitespace

\* str.split() with no argument: skip a run of whitespace, take the
\* characters up to the next whitespace as one word, repeat
RECURSIVE split(_, _)
split(cs, i) ==
  IF i > Len(cs) THEN <<>>
  ELSE IF isspace(cs[i]) THEN split(cs, i + 1)
  ELSE LET j == CHOOSE k \in i..Len(cs) :
                   /\ \A m \in i..k : ~isspace(cs[m])
                   /\ (k = Len(cs) \/ isspace(cs[k + 1]))
       IN  <<SubSeq(cs, i, j)>> \o split(cs, j + 1)

----------------------------------------------------------------------------
\* text_to_words

\* the grave accent, which a TLA+ string literal cannot hold
grave == "grave"

\* the punctuation string p of text_to_words
p ==
  <<"!", "\"", "#", "$", "%", "&", "'", "(", ")", "*", "+", ",", "-", ".",
    "/", ":", ";", "<", "=", ">", "?", "@", "[", "\\", "]", "^", "_", grave,
    "{", "|", "}", "~">>

\* ch in p, for a one-character string ch
in_p(ch) == \E i \in DOMAIN p : p[i] = ch

not_in_p(ch) == ~in_p(ch)

\* text_to_words with each punctuation character replaced by a space
\* instead of deleted
text_to_words_spaced(t) ==
  IF t.type # "str" THEN Raise("AttributeError")
  ELSE LET lowered == lower(t.chars)
           spaced  == [i \in DOMAIN lowered |->
                         IF in_p(lowered[i]) THEN " " ELSE lowered[i]]
       IN  Return(split(spaced, 1))

\* str.split(' '): cut at every single space, empty fields kept
RECURSIVE split_sep(_, _)
split_sep(cs, i) ==
  IF \E k \in i..Len(cs) : cs[k] = " "
  THEN LET j == CHOOSE k \in i..Len(cs) :
                  cs[k] = " " /\ \A m \in i..(k - 1) : cs[m] # " "
       IN  <<SubSeq(cs, i, j - 1)>> \o split_sep(cs, j + 1)
  ELSE <<SubSeq(cs, i, Len(cs))>>

\* text_to_words ending in text.split(' ') instead of text.split()
text_to_words_split_sep(t) ==
  IF t.type # "str" THEN Raise("AttributeError")
  ELSE Return(split_sep(SelectSeq(lower(t.chars), not_in_p), 1))

\* text_to_words without the call of text.lower()
text_to_words_no_lower(t) ==
  IF t.type # "str" THEN Raise("AttributeError")
  ELSE Return(split(SelectSeq(t.chars, not_in_p), 1))

text_to_words(t) ==
  IF t.type # "str" THEN Raise("AttributeError")
  ELSE LET lowered == lower(t.chars)
           joined  == SelectSeq(lowered, not_in_p)
       IN  Return(split(joined, 1))

----------------------------------------------------------------------------
\* word_count

\* word_count counting the tokens of text_to_words instead of the words
\* of text_string.split()
word_count_tokens(text_string) ==
  IF text_string.type # "str" THEN Raise("AttributeError")
  ELSE Return(Len(text_to_words(text_string).value))

word_count(text_string) ==
  IF text_string.type # "str" THEN Raise("AttributeError")
  ELSE Return(Len(split(text_string.chars, 1)))

----------------------------------------------------------------------------
\* count_occurences

in_word_list(wl, w) == w \in wl

\* count_occurences counting each listed word once, however often it
\* occurs in the text
count_occurences_distinct(t, wl) ==
  LET text_list == text_to_words(t)
  IN  IF text_list.kind = "raise" THEN text_list
      ELSE Return(Cardinality({w \in wl :
                    \E i \in DOMAIN text_list.value :
                       text_list.value[i] = w}))

\* count_occurences with the membership test inverted
count_occurences_not_in(t, wl) ==
  LET text_list == text_to_words(t)
  IN  IF text_list.kind = "raise" THEN text_list
      ELSE Return(Len(SelectSeq(text_list.value,
                                LAMBDA w : ~in_word_list(wl, w))))

\* count_occurences returning the length of text_list, the filter left out
count_occurences_unfiltered(t, wl) ==
  LET text_list == text_to_words(t)
  IN  IF text_list.kind = "raise" THEN text_list
      ELSE Return(Len(text_list.value))

\* count_occurences comparing the tokens with the lower-cased terms
count_occurences_lowered(t, wl) ==
  LET text_list == text_to_words(t)
  IN  IF text_list.kind = "raise" THEN text_list
      ELSE Return(Len(SelectSeq(text_list.value,
                        LAMBDA w : \E x \in wl : lower(x) = w)))

count_occurences(t, wl) ==
  LET text_list == text_to_words(t)
  IN  IF text_list.kind = "raise" THEN text_list
      ELSE LET intersection ==
                 SelectSeq(text_list.value, LAMBDA w : in_word_list(wl, w))
           IN  Return(Len(intersection))

----------------------------------------------------------------------------
\* Inputs

\* characters of the generated texts: lower-case letters, an upper-case
\* letter, punctuation and two kinds of whitespace
Alphabet == {"a", "b", "A", "!", " ", "\t"}

RECURSIVE SeqsUpTo(_, _)
SeqsUpTo(S, n) ==
  IF n = 0 THEN {<<>>}
  ELSE LET shorter == SeqsUpTo(S, n - 1)
       IN  shorter \cup {Append(s, c) : s \in shorter, c \in S}

MakeThis ==
  <<"M", "a", "k", "e", " ", "t", "h", "i", "s", " ", "l", "o", "w", "e",
    "r", " ", "c", "a", "s", "e", " ", "a", "n", "d", " ", "r", "e", "m",
    "o", "v", "e", "!", " ", "A", "l", "l", "?", " ", "P", "u", "n", "c",
    "t", "u", "a", "t", "i", "o", "n", ".">>

HeWent ==
  <<"H", "e", " ", "w", "e", "n", "t", " ", "t", "o", " ", "t", "h", "e",
    " ", "s", "t", "o", "r", "e", ".">>

Texts ==
  {Str(cs) : cs \in SeqsUpTo(Alphabet, MaxLen) \cup {MakeThis, HeWent}}
    \cup {None}

\* terms a word list may hold; the csv column is not normalised, so a
\* term may carry an upper-case letter
Terms == {<<"a">>, <<"b">>, <<"A">>}

he_him == {<<"h", "e">>, <<"h", "i", "m">>}

\* word lists with a term that is not in the form text_to_words produces:
\* an upper-case letter, a punctuation character, a space
He == <<"H", "e">>

RawLists == {{He}, {<<"a", "!">>, <<"a">>}, {<<"a", " ", "b">>, <<"b">>}}

WordLists == (SUBSET Terms) \cup {he_him} \cup RawLists

----------------------------------------------------------------------------
\* The calls of the notebook

\* no call made yet
NoRet == [kind |-> "none", value |-> 0]

Workers == 1..NumWorkers

IdleWorkers == [w \in Workers |-> [pc |-> "idle", row |-> 0, fn |-> "none"]]

NoLocals == [text |-> <<>>, text_list |-> <<>>, intersection |-> <<>>]

NoFrames == [f \in Workers |-> NoLocals]

Init ==
  /\ text \in Texts
  /\ word_list \in WordLists
  /\ op = "none"
  /\ ret = NoRet
  /\ df = <<>>
  /\ out = NoRet
  /\ wk = IdleWorkers
  /\ frames = NoFrames

Call_word_count ==
  /\ op' = "word_count"
  /\ ret' = word_count(text)
  /\ UNCHANGED <<text, word_list, df, out, wk, frames>>

Call_text_to_words ==
  /\ op' = "text_to_words"
  /\ ret' = text_to_words(text)
  /\ UNCHANGED <<text, word_list, df, out, wk, frames>>

Call_count_occurences ==
  /\ op' = "count_occurences"
  /\ ret' = count_occurences(text, word_list)
  /\ UNCHANGED <<text, word_list, df, out, wk, frames>>

Next ==
  \/ Call_word_count
  \/ Call_text_to_words
  \/ Call_count_occurences

Spec == Init /\ [][Next]_vars

----------------------------------------------------------------------------
\* The rows of a dataframe scored by workers, one call per row, the
\* statements of the calls interleaved

\* the texts of the generated dataframes
CorpusTexts ==
  {Str(<<"a", " ", "a">>), Str(<<"A", "!", " ", "b">>), None}

CorpusLists == {{<<"a">>}, {<<"a">>, <<"b">>}}

\* the word list the workers score against
WorkerLists == {{<<"a">>}}

\* the dataframes of MaxRows rows with the default index 0, 1, ... that
\* pandas gives a frame it reads
RangeFrames ==
  {[i \in 1..MaxRows |-> [label |-> i - 1, commentBody |-> ts[i]]] :
     ts \in [1..MaxRows -> CorpusTexts]}

Fns == {"word_count", "text_to_words", "count_occurences"}

\* all workers sharing one set of local variables, as module-level names
\* would be shared
SharedFrame(w) == 1

\* the local variables of the call worker w is in
Frame(w) == w

InitWorkers ==
  /\ text = Str(<<>>)
  /\ word_list \in WorkerLists
  /\ op = "workers"
  /\ ret = NoRet
  /\ df \in RangeFrames
  /\ out = [i \in DOMAIN df |-> [fn |-> "none", kind |-> "none", value |-> 0]]
  /\ wk = IdleWorkers
  /\ frames = NoFrames

Result(fn, r) == [fn |-> fn, kind |-> r.kind, value |-> r.value]

\* the call of worker w ends: its outcome is stored for the row and its
\* local variables are gone
Finish(w, fn, r) ==
  /\ out' = [out EXCEPT ![wk[w].row] = Result(fn, r)]
  /\ wk' = [wk EXCEPT ![w] = [pc |-> "idle", row |-> 0, fn |-> "none"]]
  /\ frames' = [frames EXCEPT ![Frame(w)] = NoLocals]

Goto(w, line) == wk' = [wk EXCEPT ![w].pc = line]

\* worker w takes a row nobody has taken and calls fn on its text
StartCall(w, i, fn) ==
  /\ op = "workers"
  /\ wk[w].pc = "idle"
  /\ out[i].kind = "none"
  /\ \A v \in Workers : wk[v].row # i
  /\ wk' = [wk EXCEPT ![w] =
              [pc |-> CASE fn = "word_count" -> "482"
                        [] fn = "text_to_words" -> "1120"
                        [] fn = "count_occurences" -> "1164",
               row |-> i, fn |-> fn]]
  /\ UNCHANGED <<text, word_list, op, ret, df, out, frames>>

\* return len(text_string.split())
Line482(w) ==
  /\ wk[w].pc = "482"
  /\ Finish(w, "word_count", word_count(df[wk[w].row].commentBody))
  /\ UNCHANGED <<text, word_list, op, ret, df>>

\* text = text.lower()
Line1120(w) ==
  /\ wk[w].pc = "1120"
  /\ LET t == df[wk[w].row].commentBody
     IN  IF t.type # "str"
         THEN Finish(w, "text_to_words", Raise("AttributeError"))
         ELSE /\ frames' = [frames EXCEPT ![Frame(w)].text = lower(t.chars)]
              /\ Goto(w, "1123")
              /\ UNCHANGED out
  /\ UNCHANGED <<text, word_list, op, ret, df>>

\* text = ''.join([ch for ch in text if ch not in p])
Line1123(w) ==
  /\ wk[w].pc = "1123"
  /\ frames' = [frames EXCEPT ![Frame(w)].text =
                  SelectSeq(frames[Frame(w)].text, not_in_p)]
  /\ Goto(w, "1125")
  /\ UNCHANGED <<text, word_list, op, ret, df, out>>

\* return text.split()
Line1125(w) ==
  /\ wk[w].pc = "1125"
  /\ Finish(w, "text_to_words", Return(split(frames[Frame(w)].text, 1)))
  /\ UNCHANGED <<text, word_list, op, ret, df>>

\* text_list = text_to_words(text)
Line1164(w) ==
  /\ wk[w].pc = "1164"
  /\ LET r == text_to_words(df[wk[w].row].commentBody)
     IN  IF r.kind = "raise"
         THEN Finish(w, "count_occurences", r)
         ELSE /\ frames' = [frames EXCEPT ![Frame(w)].text_list = r.value]
              /\ Goto(w, "1166")
              /\ UNCHANGED out
  /\ UNCHANGED <<text, word_list, op, ret, df>>

\* intersection = [w for w in text_list if w in word_list]
Line1166(w) ==
  /\ wk[w].pc = "1166"
  /\ frames' = [frames EXCEPT ![Frame(w)].intersection =
                  SelectSeq(frames[Frame(w)].text_list,
                            LAMBDA x : in_word_list(word_list, x))]
  /\ Goto(w, "1168")
  /\ UNCHANGED <<text, word_list, op, ret, df, out>>

\* return len(intersection)
Line1168(w) ==
  /\ wk[w].pc = "1168"
  /\ Finish(w, "count_occurences",
            Return(Len(frames[Frame(w)].intersection)))
  /\ UNCHANGED <<text, word_list, op, ret, df>>

NextWorkers ==
  \/ \E w \in Workers, i \in DOMAIN df, fn \in Fns : StartCall(w, i, fn)
  \/ \E w \in Workers : Line482(w)
  \/ \E w \in Workers : Line1120(w)
  \/ \E w \in Workers : Line1123(w)
  \/ \E w \in Workers : Line1125(w)
  \/ \E w \in Workers : Line1164(w)
  \/ \E w \in Workers : Line1166(w)
  \/ \E w \in Workers : Line1168(w)

SpecWorkers == InitWorkers /\ [][NextWorkers]_vars

----------------------------------------------------------------------------
\* The dataframe operations: Series.apply of a function over the text
\* column, and vaderize

\* the index labels of the generated dataframes
Labels == 0..MaxRows

\* the dataframes of up to MaxRows rows with distinct index labels in any
\* order, as sorting, sampling or filtering a frame leaves them
IndexedFrames ==
  UNION {{[i \in 1..n |-> [label |-> ls[i], commentBody |-> ts[i]]] :
            ls \in {f \in [1..n -> Labels] :
                      \A a, b \in 1..n : a # b => f[a] # f[b]},
            ts \in [1..n -> CorpusTexts]} : n \in 1..MaxRows}

\* the missing value pandas fills in where an index label has no row
NaN == [type |-> "NaN", chars |-> <<>>]

\* analyzer.polarity_scores, a function of the text and of nothing else;
\* the value stands for the four scores of that text
polarity_scores(t) == [type |-> "polarity_scores", chars |-> t.chars]

\* Series.apply, r[i] being the outcome of the function on the value of
\* row i: the values in row order, the index kept; the first exception
\* leaves the loop and no series is built
Series_apply(d, r) ==
  IF \E i \in DOMAIN d : r[i].kind = "raise"
  THEN r[CHOOSE i \in DOMAIN d :
           r[i].kind = "raise"
           /\ \A j \in 1..(i - 1) : r[j].kind # "raise"]
  ELSE Return([i \in DOMAIN d |->
                 [label |-> d[i].label, value |-> r[i].value]])

\* pd.concat([df, sdf], axis=1): the rows of the two frames are paired by
\* index label over the union of the labels, NaN where a frame has no row
\* with the label (the order of the rows is left out: the result is the
\* set of its rows)
concat_axis1(d, sdf) ==
  LET in_d(l)   == \E i \in DOMAIN d : d[i].label = l
      in_sdf(l) == \E i \in DOMAIN sdf : sdf[i].label = l
  IN  {[label |-> l,
        commentBody |->
          IF in_d(l)
          THEN d[CHOOSE i \in DOMAIN d : d[i].label = l].commentBody
          ELSE NaN,
        vader |->
          IF in_sdf(l)
          THEN sdf[CHOOSE i \in DOMAIN sdf : sdf[i].label = l].vader
          ELSE NaN] :
       l \in {d[i].label : i \in DOMAIN d}
               \cup {sdf[i].label : i \in DOMAIN sdf}}

\* vaderize: the scores of the rows as a list, a new frame built from the
\* list (its index is 0, 1, ...), and the two frames put side by side
vaderize(d) ==
  LET sentiment == [i \in DOMAIN d |-> polarity_scores(d[i].commentBody)]
      sdf == [i \in DOMAIN d |-> [label |-> i - 1, vader |-> sentiment[i]]]
      df_combined == concat_axis1(d, sdf)
  IN  Return(df_combined)

InitBatch ==
  /\ text = Str(<<>>)
  /\ word_list \in CorpusLists
  /\ op = "none"
  /\ ret = NoRet
  /\ df \in IndexedFrames
  /\ out = NoRet
  /\ wk = IdleWorkers
  /\ frames = NoFrames

\* nyt_df['word_count'] = nyt_df['commentBody'].apply(word_count)
Apply_word_count ==
  /\ df # <<>>
  /\ op' = "apply_word_count"
  /\ out' = Series_apply(df, [i \in DOMAIN df |->
                                word_count(df[i].commentBody)])
  /\ UNCHANGED <<text, word_list, ret, df, wk, frames>>

\* nyt_df['male_words'] = nyt_df['commentBody'].apply(count_occurences,
\*                                                    args=(male_words_list, ))
Apply_count_occurences ==
  /\ df # <<>>
  /\ op' = "apply_count_occurences"
  /\ out' = Series_apply(df, [i \in DOMAIN df |->
                                count_occurences(df[i].commentBody,
                                                 word_list)])
  /\ UNCHANGED <<text, word_list, ret, df, wk, frames>>

\* df_vaderized = vaderize(nyt_df, 'commentBody'), for a frame whose texts
\* are all strings
Vaderize ==
  /\ df # <<>>
  /\ \A i \in DOMAIN df : df[i].commentBody.type = "str"
  /\ op' = "vaderize"
  /\ out' = vaderize(df)
  /\ UNCHANGED <<text, word_list, ret, df, wk, frames>>

NextBatch ==
  \/ Apply_word_count
  \/ Apply_count_occurences
  \/ Vaderize

SpecBatch == InitBatch /\ [][NextBatch]_vars

----------------------------------------------------------------------------
\* Properties

MakeThisWords ==
  << <<"m", "a", "k", "e">>, <<"t", "h", "i", "s">>,
     <<"l", "o", "w", "e", "r">>, <<"c", "a", "s", "e">>,
     <<"a", "n", "d">>, <<"r", "e", "m", "o", "v", "e">>,
     <<"a", "l", "l">>,
     <<"p", "u", "n", "c", "t", "u", "a", "t", "i", "o", "n">> >>

\* position i of cs holds a character that survives into a token
Kept(cs, i) == ~in_p(cs[i]) /\ ~isspace(cs[i])

\* position i holds the first character of a token: every surviving
\* character before it is separated from it by some whitespace
TokenStart(cs, i) ==
  /\ Kept(cs, i)
  /\ \A j \in 1..(i - 1) :
       Kept(cs, j) => \E k \in (j + 1)..(i - 1) : isspace(cs[k])

\* the number of the token that position i belongs to
TokenNo(cs, i) == Cardinality({j \in 1..i : TokenStart(cs, j)})

\* the place of position i inside its token
PosInToken(cs, i) ==
  Cardinality({j \in 1..i : Kept(cs, j) /\ TokenNo(cs, j) = TokenNo(cs, i)})

\* r is cs lower-cased, with punctuation deleted and nothing put in its
\* place, cut at the runs of whitespace, in the original order
IsTokenization(cs, r) ==
  /\ Len(r) = Cardinality({j \in DOMAIN cs : TokenStart(cs, j)})
  /\ \A n \in DOMAIN r :
       Len(r[n]) =
         Cardinality({i \in DOMAIN cs : Kept(cs, i) /\ TokenNo(cs, i) = n})
  /\ \A i \in DOMAIN cs :
       Kept(cs, i) => r[TokenNo(cs, i)][PosInToken(cs, i)] = lower_ch(cs[i])

\* C1: text_to_words returns the lower-cased text with the punctuation
\* characters deleted (the characters around a deleted one join into one
\* token) and split at the runs of whitespace, tokens in their original
\* order; the "Make this lower case ..." example yields its eight words.
C1_Tokenizer ==
  (op = "text_to_words" /\ text.type = "str") =>
    /\ ret.kind = "return"
    /\ IsTokenization(text.chars, ret.value)
    /\ (text.chars = MakeThis => ret.value = MakeThisWords)

\* a punctuation character stands between two surviving characters and
\* text_to_words has returned
C1_Witness ==
  /\ op = "text_to_words"
  /\ text.type = "str"
  /\ ret.kind = "return"
  /\ \E i \in 2..(Len(text.chars) - 1) :
       /\ in_p(text.chars[i])
       /\ Kept(text.chars, i - 1)
       /\ Kept(text.chars, i + 1)
       /\ Len(ret.value) = 1

\* C2: count_occurences returns the number of positions of the tokenized
\* text whose token is a member of the word list, a repeated word counting
\* once per occurrence; tokens outside the list add nothing and raise
\* nothing; 'He went to the store.' counts 1 for {he, him}.
C2_CountsPositions ==
  (op = "count_occurences" /\ text.type = "str") =>
    LET toks == text_to_words(text).value
    IN  /\ ret.kind = "return"
        /\ ret.value = Cardinality({i \in DOMAIN toks : toks[i] \in word_list})
        /\ (text.chars = HeWent /\ word_list = he_him => ret.value = 1)

\* a listed word occurs twice in the text and is counted twice
C2_Witness ==
  /\ op = "count_occurences"
  /\ text.type = "str"
  /\ ret = Return(2)
  /\ \E w \in word_list :
       /\ text_to_words(text).value = <<w, w>>
       /\ Cardinality(word_list) = 2

\* C7: the count for a word list is at least the count for each of the
\* lists it is the union of.
C7_MonotoneUnderUnion ==
  (op = "count_occurences" /\ text.type = "str") =>
    \A A, B \in SUBSET word_list :
      A \cup B = word_list =>
        /\ ret.value >= count_occurences(text, A).value
        /\ ret.value >= count_occurences(text, B).value

\* the list is the union of two lists that each match a token, and its
\* count is larger than either's
C7_Witness ==
  /\ op = "count_occurences"
  /\ text.type = "str"
  /\ \E A, B \in SUBSET word_list :
       /\ A \cup B = word_list
       /\ count_occurences(text, A).value >= 1
       /\ count_occurences(text, B).value >= 1
       /\ ret.value > count_occurences(text, A).value
       /\ ret.value > count_occurences(text, B).value

\* C8: with an empty word list count_occurences returns 0 and does not
\* raise, whatever the text.
C8_EmptyWordList ==
  (op = "count_occurences" /\ text.type = "str" /\ word_list = {}) =>
    ret = Return(0)

\* the text has tokens and the word list is empty
C8_Witness ==
  /\ op = "count_occurences"
  /\ text.type = "str"
  /\ word_list = {}
  /\ text_to_words(text).value # <<>>
  /\ ret = Return(0)

\* C10: for a None or empty text, text_to_words and count_occurences do
\* not raise and return the empty token sequence and the count 0.
C10_NoneOrEmptyIsLegal ==
  (op \in {"text_to_words", "count_occurences"}
     /\ (text = None \/ text = Str(<<>>))) =>
    /\ ret.kind = "return"
    /\ (op = "text_to_words" => ret.value = <<>>)
    /\ (op = "count_occurences" => ret.value = 0)

\* every character of cs is a punctuation character or whitespace
OnlyPunctuationOrSpace(cs) ==
  \A i \in DOMAIN cs : in_p(cs[i]) \/ isspace(cs[i])

\* C11: text_to_words returns the empty sequence for the empty string and
\* for every string of punctuation characters and whitespace only; it
\* produces no empty token for them.
C11_NothingFromPunctuation ==
  (op = "text_to_words" /\ text.type = "str"
     /\ OnlyPunctuationOrSpace(text.chars)) =>
    ret = Return(<<>>)

\* a non-empty text that mixes punctuation and whitespace was tokenized
C11_Witness ==
  /\ op = "text_to_words"
  /\ text.type = "str"
  /\ OnlyPunctuationOrSpace(text.chars)
  /\ \E i, j \in DOMAIN text.chars :
       in_p(text.chars[i]) /\ isspace(text.chars[j])
  /\ ret = Return(<<>>)

\* w is in the form of a token of text_to_words
IsNormal(w) ==
  /\ Len(w) > 0
  /\ \A i \in DOMAIN w :
       /\ ~isspace(w[i])
       /\ ~in_p(w[i])
       /\ \A k \in DOMAIN ascii_uppercase : ascii_uppercase[k] # w[i]

\* C16: only the text is normalised, never the word list: the count for a
\* word list equals the count for its terms that are already in token
\* form; a list holding 'He' but not 'he' counts 0 on
\* 'He went to the store.'.
C16_ListNotNormalised ==
  (op = "count_occurences" /\ text.type = "str") =>
    /\ ret = count_occurences(text, {w \in word_list : IsNormal(w)})
    /\ (text.chars = HeWent /\ word_list = {He} => ret = Return(0))

\* the list holds only 'He', the text starts with 'He', the count is 0
C16_Witness ==
  /\ op = "count_occurences"
  /\ text.chars = HeWent
  /\ word_list = {He}
  /\ ret = Return(0)

\* some whitespace-delimited word of cs has punctuation characters only
HasPunctuationWord(cs) ==
  \E i, j \in DOMAIN cs :
    /\ i <= j
    /\ (i = 1 \/ isspace(cs[i - 1]))
    /\ (j = Len(cs) \/ isspace(cs[j + 1]))
    /\ \A k \in i..j : in_p(cs[k])

\* C17: word_count(text) is at least the number of tokens of
\* text_to_words(text), and larger exactly when some whitespace-delimited
\* word of the text has punctuation characters only; it is 0 exactly when
\* the text is empty or all whitespace.
C17_WordCountVsTokens ==
  (op = "word_count" /\ text.type = "str") =>
    LET n == Len(text_to_words(text).value)
    IN  /\ ret.kind = "return"
        /\ ret.value >= n
        /\ (ret.value > n <=> HasPunctuationWord(text.chars))
        /\ (ret.value = 0 <=> \A i \in DOMAIN text.chars :
                                 isspace(text.chars[i]))

\* a text with a token and a punctuation-only word was counted
C17_Witness ==
  /\ op = "word_count"
  /\ text.type = "str"
  /\ HasPunctuationWord(text.chars)
  /\ Len(text_to_words(text).value) >= 1
  /\ ret.value > Len(text_to_words(text).value)

\* the tokens joined by single spaces
RECURSIVE JoinSpaces(_)
JoinSpaces(ws) ==
  IF ws = <<>> THEN <<>>
  ELSE IF Len(ws) = 1 THEN ws[1]
  ELSE ws[1] \o <<" ">> \o JoinSpaces(Tail(ws))

\* C18: every token of text_to_words is non-empty and holds no whitespace,
\* no punctuation character and no upper-case ASCII letter; tokenizing the
\* tokens joined by single spaces returns the same tokens.
C18_TokensNormal ==
  (op = "text_to_words" /\ text.type = "str") =>
    /\ \A n \in DOMAIN ret.value : IsNormal(ret.value[n])
    /\ text_to_words(Str(JoinSpaces(ret.value))) = ret

\* a text with an upper-case letter and a punctuation character gave two
\* tokens
C18_Witness ==
  /\ op = "text_to_words"
  /\ text.type = "str"
  /\ ret.kind = "return"
  /\ Len(ret.value) = 2
  /\ \E i, j \in DOMAIN text.chars :
       /\ in_p(text.chars[i])
       /\ \E k \in DOMAIN ascii_uppercase :
            ascii_uppercase[k] = text.chars[j]

\* rows i and j were scored by the same function on the same text
SameCall(i, j) ==
  /\ out[i].kind # "none"
  /\ out[j].kind # "none"
  /\ out[i].fn = out[j].fn
  /\ df[i].commentBody = df[j].commentBody

\* C12: two calls of the same function with the same text and the same
\* word list give the same result, whatever calls ran before them or
\* between their statements.
C12_SameInputSameResult ==
  op = "workers" =>
    \A i, j \in DOMAIN df : SameCall(i, j) => out[i] = out[j]

\* two rows with the same text were scored by count_occurences while a
\* third row with another text was scored too
C12_Witness ==
  /\ op = "workers"
  /\ \E i, j, k \in DOMAIN df :
       /\ i # j
       /\ SameCall(i, j)
       /\ out[i].fn = "count_occurences"
       /\ out[i].kind = "return"
       /\ out[i].value > 0
       /\ out[k].kind = "return"
       /\ df[k].commentBody # df[i].commentBody

\* every row count_occurences has finished holds the result of calling
\* count_occurences on that row's text alone
ResultsAsSequential ==
  op = "workers" =>
    \A i \in DOMAIN df :
      out[i].fn = "count_occurences" =>
        out[i] = Result("count_occurences",
                        count_occurences(df[i].commentBody, word_list))

\* C14: with the rows scored by several workers in any interleaving, each
\* row's result is the result of scoring its text alone, and no step
\* writes the word list.
C14_WorkersAsSequential ==
  /\ []ResultsAsSequential
  /\ [][word_list' = word_list]_vars

\* two workers are inside count_occurences at once, on different texts,
\* while another row already has its count
C14_Witness ==
  /\ op = "workers"
  /\ \E v, w \in Workers :
       /\ wk[v].pc = "1166"
       /\ wk[w].pc = "1168"
       /\ df[wk[v].row].commentBody # df[wk[w].row].commentBody
  /\ \E i \in DOMAIN df :
       out[i].fn = "count_occurences" /\ out[i].kind = "return"

\* C13: vaderize returns the rows of its dataframe, each with the polarity
\* scores of its own text: no row added, dropped or given another row's
\* scores, whatever the index labels and the row order.
C13_ScoresStayWithRow ==
  op = "vaderize" =>
    /\ out.kind = "return"
    /\ out.value =
         {[label |-> df[i].label,
           commentBody |-> df[i].commentBody,
           vader |-> polarity_scores(df[i].commentBody)] : i \in DOMAIN df}

\* C15: in the apply of count_occurences over the text column, a text that
\* raises does not keep the other rows from receiving their counts.
C15_RowIsolation ==
  op = "apply_count_occurences" =>
    \A i \in DOMAIN df :
      df[i].commentBody.type = "str" =>
        /\ out.kind = "return"
        /\ out.value[i] =
             [label |-> df[i].label,
              value |-> count_occurences(df[i].commentBody, word_list).value]

====
